---- MODULE Spec2Model ----
(***************************************************************************)
(* Model of py_rme_canary_rust (src/py_rme_canary/rust/py_rme_canary_rust/ *)
(* src/lib.rs): the spawn-area cursor lookup, the minimap rasterizer and   *)
(* the PNG IDAT row framer.  Each exported function is pure; a call is one *)
(* atomic step that records its arguments in `call` and its outcome in     *)
(* `ret`.  A Rust panic is the outcome status "panic".                     *)
(***************************************************************************)
EXTENDS Integers, Sequences, FiniteSets, TLC

VARIABLES call, ret, canvas, pending

vars == <<call, ret, canvas, pending>>

----------------------------------------------------------------------------
(* Bounds of the explored inputs.                                          *)

MaxGrid == 2
MaxTileSize == 2
MaxTiles == 4
MaxWidth == 2
MaxHeight == 2
MaxImageLen == 7
MaxAreas == 2
MaxEntries == 2

MaxCanvasBytes == (MaxGrid * MaxTileSize) * (MaxGrid * MaxTileSize) * 3

Min(a, b) == IF a < b THEN a ELSE b
Max(a, b) == IF a > b THEN a ELSE b

----------------------------------------------------------------------------
(* Fixed-width unsigned arithmetic.  A u32 is 4 and a usize (64-bit target) *)
(* 8 little-endian base-256 limbs, so that products beyond 2^31 are        *)
(* computed exactly.                                                       *)

LimbBase == 256
U32Limbs == 4
UsizeLimbs == 8

RECURSIVE ToLimbs(_, _)
ToLimbs(n, k) ==
  IF k = 0 THEN <<>> ELSE <<n % LimbBase>> \o ToLimbs(n \div LimbBase, k - 1)

RECURSIVE ColumnSum(_, _, _, _)
ColumnSum(a, b, c, i) ==
  IF i > c THEN 0
  ELSE (IF i < Len(a) /\ c - i < Len(b) THEN a[i + 1] * b[c - i + 1] ELSE 0)
       + ColumnSum(a, b, c, i + 1)

RECURSIVE MulFrom(_, _, _, _)
MulFrom(a, b, c, carry) ==
  IF c = Len(a) + Len(b) THEN <<>>
  ELSE LET s == ColumnSum(a, b, c, 0) + carry
       IN  <<s % LimbBase>> \o MulFrom(a, b, c + 1, s \div LimbBase)

\* l without its leading (most significant) zero limbs.
RECURSIVE Trim(_)
Trim(l) == IF Len(l) > 0 /\ l[Len(l)] = 0 THEN Trim(SubSeq(l, 1, Len(l) - 1)) ELSE l

\* The exact product, Len(a) + Len(b) limbs.
ExactMul(a, b) ==
  LET p == MulFrom(Trim(a), Trim(b), 0, 0)
  IN  p \o [i \in 1..(Len(a) + Len(b) - Len(p)) |-> 0]

IsZero(l) == \A i \in 1..Len(l) : l[i] = 0

\* The low k limbs of the product and whether the product needed more.
MulWidth(a, b, k) ==
  LET p == ExactMul(a, b)
  IN  [val |-> SubSeq(p, 1, k), overflow |-> ~IsZero(SubSeq(p, k + 1, Len(p)))]

ZeroExtend(l, k) == l \o [i \in 1..(k - Len(l)) |-> 0]

\* A limb value is a model integer when it is below 2^31.
FitsInt(l) == \A i \in 4..Len(l) : IF i = 4 THEN l[i] < 128 ELSE l[i] = 0

ToInt(l) == l[1] + 256 * l[2] + 65536 * l[3] + 16777216 * l[4]

\* Above isize::MAX a Vec allocation panics with "capacity overflow".
ExceedsIsizeMax(l) == l[UsizeLimbs] >= 128

----------------------------------------------------------------------------
(* render_minimap_buffer                                                   *)

\* lib.rs 105-107.  overflow_checks is the build profile: with it an
\* overflowing multiplication panics, without it the product wraps.
CanvasDims(tiles_x, tiles_y, tile_size, overflow_checks) ==
  LET w == MulWidth(ToLimbs(tiles_x, U32Limbs), ToLimbs(tile_size, U32Limbs), U32Limbs)
      h == MulWidth(ToLimbs(tiles_y, U32Limbs), ToLimbs(tile_size, U32Limbs), U32Limbs)
      img_w == ZeroExtend(w.val, UsizeLimbs)
      img_h == ZeroExtend(h.val, UsizeLimbs)
      wh == MulWidth(img_w, img_h, UsizeLimbs)
      t == MulWidth(wh.val, ToLimbs(3, UsizeLimbs), UsizeLimbs)
      wrapped == w.overflow \/ h.overflow \/ wh.overflow \/ t.overflow
  IN  [status |-> IF overflow_checks /\ wrapped THEN "panic" ELSE "ok",
       img_w |-> img_w, img_h |-> img_h, total |-> t.val]

\* lib.rs 110: vec![0u8; total]
AllocPanics(total) == ExceedsIsizeMax(total)

\* Mutant: the fill loop of lib.rs 111-115 left out.
BackgroundFill_zeroed(total, bg) == [i \in 1..total |-> 0]

\* lib.rs 110-115: the canvas after the background fill.
BackgroundFill(total, bg) == [i \in 1..total |-> bg[((i - 1) % 3) + 1]]

\* Mutant: only the documented sentinel (255, 255, 255, 0) is skipped.
IsSkipped_sentinel(c) == c = <<255, 255, 255, 0>>

\* lib.rs 120
IsSkipped(c) == c[4] = 0

\* Mutant: the column taken by division, as the row is.
TileX_divided(idx, tiles_x) == idx \div tiles_x

\* Mutant: the block's left edge not scaled by the tile size.
PxBase_unscaled(tx, ts) == tx

\* lib.rs 123-126
TileX(idx, tiles_x) == idx % tiles_x
TileY(idx, tiles_x) == idx \div tiles_x
PxBase(tx, ts) == tx * ts
PyBase(ty, ts) == ty * ts

\* lib.rs 129
RowStart(py_base, oy, img_w, px_base) == ((py_base + oy) * img_w + px_base) * 3

\* Mutant: the check compares the row start only, and off by one.
RowExceeds_startOnly(row_start, ts, total) == row_start > total

\* lib.rs 130
RowExceeds(row_start, ts, total) == row_start + ts * 3 > total

\* lib.rs 133-138: one block row.  buf[off] is bounds-checked: an offset
\* at or beyond the canvas length panics.
WriteRow(st, idx, oy, row_start, ts, c) ==
  LET offs == row_start .. (row_start + ts * 3 - 1)
      bad == \E o \in offs : o >= st.total
  IN  [st EXCEPT
         !.status = IF bad THEN "panic" ELSE "ok",
         !.buf = [i \in 1..st.total |->
                    IF (i - 1) \in offs THEN c[((i - 1 - row_start) % 3) + 1]
                    ELSE st.buf[i]],
         !.rows = st.rows \cup {<<idx, oy, row_start>>},
         !.writes = st.writes \cup {<<idx, o>> : o \in offs}]

\* lib.rs 128-139
RECURSIVE StampRows(_, _, _, _, _, _, _, _)
StampRows(st, idx, oy, ts, img_w, px_base, py_base, c) ==
  IF oy >= ts \/ st.status # "ok" THEN st
  ELSE LET row_start == RowStart(py_base, oy, img_w, px_base)
       IN  IF RowExceeds(row_start, ts, st.total) THEN st
           ELSE StampRows(WriteRow(st, idx, oy, row_start, ts, c),
                          idx, oy + 1, ts, img_w, px_base, py_base, c)

\* lib.rs 119-140, the body of the loop for entry idx (0-based).
StampTile(st, idx, c, tiles_x, ts, img_w) ==
  IF st.status # "ok" \/ IsSkipped(c) THEN st
  ELSE IF tiles_x = 0 THEN [st EXCEPT !.status = "panic"]
  ELSE LET tx == TileX(idx, tiles_x)
           ty == TileY(idx, tiles_x)
       IN  StampRows(st, idx, 0, ts, img_w, PxBase(tx, ts), PyBase(ty, ts), c)

RECURSIVE StampFrom(_, _, _, _, _, _)
StampFrom(st, tile_colors, i, tiles_x, ts, img_w) ==
  IF i > Len(tile_colors) THEN st
  ELSE StampFrom(StampTile(st, i - 1, tile_colors[i], tiles_x, ts, img_w),
                 tile_colors, i + 1, tiles_x, ts, img_w)

Panicked == [status |-> "panic", buf |-> <<>>, total |-> 0, rows |-> {}, writes |-> {}]

Allocated(total, bg) ==
  [status |-> "ok", buf |-> BackgroundFill(total, bg), total |-> total,
   rows |-> {}, writes |-> {}]

\* lib.rs 96-143.  The result carries the returned canvas in buf; rows and
\* writes log the block rows and byte offsets the stamping loop wrote.
render_minimap_buffer(tile_colors, tiles_x, tiles_y, tile_size, bg, overflow_checks) ==
  LET d == CanvasDims(tiles_x, tiles_y, tile_size, overflow_checks)
  IN  IF d.status = "panic" \/ AllocPanics(d.total) THEN Panicked
      ELSE LET r == StampFrom(Allocated(ToInt(d.total), bg), tile_colors, 1,
                              tiles_x, tile_size, ToInt(d.img_w))
           IN  IF r.status = "ok" THEN r ELSE [r EXCEPT !.buf = <<>>]

\* A call whose canvas the model can hold.
Representable(tiles_x, tiles_y, tile_size, overflow_checks) ==
  LET d == CanvasDims(tiles_x, tiles_y, tile_size, overflow_checks)
  IN  \/ d.status = "panic"
      \/ AllocPanics(d.total)
      \/ /\ FitsInt(d.total) /\ FitsInt(d.img_w)
         /\ ToInt(d.total) <= MaxCanvasBytes

----------------------------------------------------------------------------
(* Inputs                                                                  *)

Opaque1 == <<255, 0, 0, 255>>
Opaque2 == <<0, 255, 0, 1>>
Transparent == <<9, 9, 9, 0>>
TileColors == {Opaque1, Opaque2, Transparent}
Backgrounds == {<<0, 0, 0>>, <<128, 64, 32>>}

SeqsUpTo(S, n) == UNION {[1..k -> S] : k \in 0..n}

NoRet == [status |-> "none"]

RenderArgs(tc, tiles_x, tiles_y, tile_size, bg, oc) ==
  [op |-> "render", tile_colors |-> tc, tiles_x |-> tiles_x, tiles_y |-> tiles_y,
   tile_size |-> tile_size, bg |-> bg, overflow_checks |-> oc]

\* The host has prepared the arguments of one render_minimap_buffer call.
Init ==
  /\ \E tiles_x \in 0..MaxGrid, tiles_y \in 0..MaxGrid, tile_size \in 0..MaxTileSize,
        oc \in BOOLEAN :
       /\ Representable(tiles_x, tiles_y, tile_size, oc)
       /\ \E tc \in SeqsUpTo(TileColors, MaxTiles), bg \in Backgrounds :
            call = RenderArgs(tc, tiles_x, tiles_y, tile_size, bg, oc)
  /\ ret = NoRet
  /\ canvas = <<>>
  /\ pending = {}

Render ==
  /\ call.op = "render"
  /\ ret = NoRet
  /\ ret' = render_minimap_buffer(call.tile_colors, call.tiles_x, call.tiles_y,
                                  call.tile_size, call.bg, call.overflow_checks)
  /\ UNCHANGED <<call, canvas, pending>>

Next == Render

Spec == Init /\ [][Next]_vars

\* Dimensions whose products leave the 32-bit and 64-bit ranges.  The calls
\* carry no opaque entry: these runs are about the canvas allocated by
\* lib.rs 105-110, and the stamping indices of such dimensions are not
\* below 2^31.
WideDims == {0, 1, 2, 65536, 1073741824, 2147483647}

InitWide ==
  /\ \E tiles_x \in WideDims, tiles_y \in WideDims, tile_size \in WideDims,
        oc \in BOOLEAN :
       /\ Representable(tiles_x, tiles_y, tile_size, oc)
       /\ \E tc \in SeqsUpTo({Transparent}, 1), bg \in Backgrounds :
            call = RenderArgs(tc, tiles_x, tiles_y, tile_size, bg, oc)
  /\ ret = NoRet
  /\ canvas = <<>>
  /\ pending = {}

SpecWide == InitWide /\ [][Next]_vars

\* The stamping loop of lib.rs 119-140 with its iterations taken in any
\* order: canvas is the loop's state, pending the entries not yet processed.
InitAnyOrder ==
  /\ \E tiles_x \in 1..MaxGrid, tiles_y \in 1..MaxGrid, tile_size \in 1..MaxTileSize,
        tc \in SeqsUpTo(TileColors, MaxTiles), bg \in Backgrounds :
       call = RenderArgs(tc, tiles_x, tiles_y, tile_size, bg, FALSE)
  /\ ret = NoRet
  /\ canvas = <<>>
  /\ pending = {}

BeginStamping ==
  /\ call.op = "render"
  /\ ret = NoRet
  /\ LET d == CanvasDims(call.tiles_x, call.tiles_y, call.tile_size, call.overflow_checks)
     IN  canvas' = Allocated(ToInt(d.total), call.bg)
  /\ pending' = 1..Len(call.tile_colors)
  /\ ret' = [status |-> "stamping"]
  /\ UNCHANGED call

StampAnyOrder ==
  /\ ret.status = "stamping"
  /\ \E i \in pending :
       /\ canvas' = StampTile(canvas, i - 1, call.tile_colors[i], call.tiles_x,
                              call.tile_size, call.tiles_x * call.tile_size)
       /\ pending' = pending \ {i}
  /\ UNCHANGED <<call, ret>>

ReturnCanvas ==
  /\ ret.status = "stamping"
  /\ pending = {}
  /\ ret' = canvas
  /\ UNCHANGED <<call, canvas, pending>>

NextAnyOrder == BeginStamping \/ StampAnyOrder \/ ReturnCanvas

SpecAnyOrder == InitAnyOrder /\ [][NextAnyOrder]_vars

----------------------------------------------------------------------------
(* Properties of render_minimap_buffer                                     *)

Returned == call.op = "render" /\ ret.status \in {"ok", "panic"}
PositiveDims == call.tiles_x > 0 /\ call.tiles_y > 0 /\ call.tile_size > 0
GridSize == call.tiles_x * call.tiles_y
ImgW == call.tiles_x * call.tile_size
ImgH == call.tiles_y * call.tile_size
RGB(c) == <<c[1], c[2], c[3]>>
PixelAt(buf, px, py) ==
  LET o == (py * ImgW + px) * 3 IN <<buf[o + 1], buf[o + 2], buf[o + 3]>>
\* The 0-based tile index whose block holds pixel (px, py).
TileOf(px, py) == (py \div call.tile_size) * call.tiles_x + (px \div call.tile_size)
\* Byte offset o lies in the block of the tile at 0-based index idx.
InBlockOf(o, idx) ==
  LET p == o \div 3
      px == p % ImgW
      py == p \div ImgW
  IN  /\ px \div call.tile_size = idx % call.tiles_x
      /\ py \div call.tile_size = idx \div call.tiles_x

\* C1: with positive dimensions and exactly tiles_x*tiles_y entries, the call
\* returns a canvas of (tiles_x*tile_size) x (tiles_y*tile_size) pixels in
\* which every pixel of an opaque tile's block has that tile's colour, and
\* no entry writes a byte outside its own block.
C1_OpaqueTilesFillTheirBlocks ==
  (Returned /\ PositiveDims /\ Len(call.tile_colors) = GridSize) =>
    /\ ret.status = "ok"
    /\ Len(ret.buf) = ImgW * ImgH * 3
    /\ \A px \in 0..(ImgW - 1), py \in 0..(ImgH - 1) :
         LET c == call.tile_colors[TileOf(px, py) + 1]
         IN  c[4] # 0 => PixelAt(ret.buf, px, py) = RGB(c)
    /\ \A w \in ret.writes : InBlockOf(w[2], w[1])

C1_Witness ==
  /\ Returned /\ ret.status = "ok"
  /\ call.tiles_x = 2 /\ call.tiles_y = 2 /\ call.tile_size = 2
  /\ call.tile_colors = <<Opaque1, Opaque2, Transparent, Opaque1>>
  /\ PixelAt(ret.buf, 3, 1) = RGB(Opaque2)
  /\ PixelAt(ret.buf, 2, 3) = RGB(Opaque1)

\* The result of the same call with other tile colours.
RenderWith(tc) ==
  render_minimap_buffer(tc, call.tiles_x, call.tiles_y, call.tile_size, call.bg,
                        call.overflow_checks)

\* Pixel (px, py) lies in the block of some opaque entry.
CoveredByOpaque(px, py) ==
  \E i \in 1..Len(call.tile_colors) :
    /\ call.tile_colors[i][4] # 0
    /\ call.tiles_x > 0
    /\ px \div call.tile_size = (i - 1) % call.tiles_x
    /\ py \div call.tile_size = (i - 1) \div call.tiles_x

AltRGB == {<<255, 255, 255>>, <<0, 255, 0>>, <<1, 2, 3>>}

\* C2: an entry with alpha 0 changes no pixel: replacing its r, g, b by any
\* other values leaves the outcome unchanged, and every pixel outside the
\* blocks of the opaque entries has the background colour.
C2_TransparentEntriesLeaveBackground ==
  Returned =>
    /\ \A i \in 1..Len(call.tile_colors) :
         call.tile_colors[i][4] = 0 =>
           \A rgb \in AltRGB :
             LET other == RenderWith([call.tile_colors EXCEPT
                                        ![i] = <<rgb[1], rgb[2], rgb[3], 0>>])
             IN  other.status = ret.status /\ other.buf = ret.buf
    /\ ret.status = "ok" =>
         \A px \in 0..(ImgW - 1), py \in 0..(ImgH - 1) :
           ~CoveredByOpaque(px, py) => PixelAt(ret.buf, px, py) = call.bg

C2_Witness ==
  /\ Returned /\ ret.status = "ok"
  /\ call.tiles_x = 2 /\ call.tiles_y = 1 /\ call.tile_size = 2
  /\ call.tile_colors = <<Transparent, Opaque1>>
  /\ call.bg = <<128, 64, 32>>
  /\ PixelAt(ret.buf, 1, 1) = <<128, 64, 32>>
  /\ PixelAt(ret.buf, 2, 0) = RGB(Opaque1)

Degenerate == call.tile_size = 0 \/ call.tiles_x = 0 \/ call.tiles_y = 0

\* C4: with tile_size = 0, tiles_x = 0 or tiles_y = 0 the call completes
\* without failing and returns a zero-length canvas, whatever tile_colors is.
C4_DegenerateGeometryReturnsEmpty ==
  (Returned /\ Degenerate) => (ret.status = "ok" /\ Len(ret.buf) = 0)

\* C6: with positive dimensions and a tile_colors length other than
\* tiles_x*tiles_y the call completes; a longer sequence gives the canvas of
\* its first tiles_x*tiles_y entries, a shorter one leaves the blocks of the
\* tile positions from its length on entirely background.
C6_LengthMismatchTolerated ==
  (Returned /\ PositiveDims /\ Len(call.tile_colors) # GridSize) =>
    /\ ret.status = "ok"
    /\ Len(call.tile_colors) > GridSize =>
         LET first == RenderWith(SubSeq(call.tile_colors, 1, GridSize))
         IN  first.status = "ok" /\ ret.buf = first.buf
    /\ Len(call.tile_colors) < GridSize =>
         \A px \in 0..(ImgW - 1), py \in 0..(ImgH - 1) :
           TileOf(px, py) >= Len(call.tile_colors) =>
             PixelAt(ret.buf, px, py) = call.bg

C6_Witness ==
  /\ Returned /\ ret.status = "ok"
  /\ call.tiles_x = 2 /\ call.tiles_y = 1 /\ call.tile_size = 2
  /\ call.tile_colors = <<Opaque1, Transparent, Opaque2, Opaque2>>
  /\ call.bg = <<128, 64, 32>>
  /\ PixelAt(ret.buf, 0, 1) = RGB(Opaque1)
  /\ PixelAt(ret.buf, 3, 1) = <<128, 64, 32>>

\* C8: for tiles_x >= 1 every byte offset the stamping loop writes is below
\* the canvas length; every block row written passed the check
\* row_start + 3*tile_size <= canvas length, and a row failing it is not
\* written.
C8_StampWritesStayInCanvas ==
  (Returned /\ call.tiles_x >= 1) =>
    LET total == ImgW * ImgH * 3
    IN  /\ \A w \in ret.writes : w[2] >= 0 /\ w[2] < total
        /\ \A r \in ret.rows : r[3] + 3 * call.tile_size <= total
        /\ \A i \in 1..Len(call.tile_colors), oy \in 0..(call.tile_size - 1) :
             LET tx == (i - 1) % call.tiles_x
                 ty == (i - 1) \div call.tiles_x
                 rs == ((ty * call.tile_size + oy) * ImgW + tx * call.tile_size) * 3
             IN  rs + 3 * call.tile_size > total =>
                   /\ \A r \in ret.rows : ~(r[1] = i - 1 /\ r[2] = oy)
                   /\ \A w \in ret.writes :
                        w[1] = i - 1 => ~(w[2] >= rs /\ w[2] < rs + 3 * call.tile_size)

C8_Witness ==
  /\ Returned /\ ret.status = "ok"
  /\ call.tiles_x = 1 /\ call.tiles_y = 2 /\ call.tile_size = 2
  /\ call.tile_colors = <<Transparent, Opaque1, Opaque2>>
  /\ <<1, 1, 18>> \in ret.rows
  /\ \A r \in ret.rows : r[1] # 2

\* The exact product tiles_x*tile_size*tiles_y*tile_size*3.
ExactLength ==
  ExactMul(ExactMul(ExactMul(ToLimbs(call.tiles_x, U32Limbs), ToLimbs(call.tile_size, U32Limbs)),
                    ExactMul(ToLimbs(call.tiles_y, U32Limbs), ToLimbs(call.tile_size, U32Limbs))),
           ToLimbs(3, U32Limbs))

\* C5: a returned canvas has exactly tiles_x*tile_size*tiles_y*tile_size*3
\* bytes, the product taken without wrapping: a call whose dimensions the
\* arithmetic cannot represent fails instead of returning a shorter canvas.
C5_LengthIsExactProduct ==
  (Returned /\ ret.status = "ok") =>
    ZeroExtend(ToLimbs(Len(ret.buf), U32Limbs), Len(ExactLength)) = ExactLength

\* The byte offsets of the block of the tile at 0-based index idx.
BlockOffsets(idx) ==
  LET tx == idx % call.tiles_x
      ty == idx \div call.tiles_x
  IN  {((ty * call.tile_size + oy) * ImgW + tx * call.tile_size + ox) * 3 + k :
         oy \in 0..(call.tile_size - 1), ox \in 0..(call.tile_size - 1), k \in 0..2}

WritesOf(st, idx) == {w[2] : w \in {v \in st.writes : v[1] = idx}}

\* C10: for positive dimensions each entry writes its complete block or
\* nothing, no byte is written by two entries, and stamping the entries in
\* any order returns the canvas the in-order loop returns.
C10_StampingIsOrderIndependent ==
  /\ ret.status = "stamping" =>
       /\ \A i \in 1..Len(call.tile_colors) :
            WritesOf(canvas, i - 1) \in {{}, BlockOffsets(i - 1)}
       /\ \A v \in canvas.writes, w \in canvas.writes : v[2] = w[2] => v[1] = w[1]
  /\ Returned =>
       LET inorder == RenderWith(call.tile_colors)
       IN  ret.status = "ok" /\ inorder.status = "ok" /\ ret.buf = inorder.buf

C10_Witness ==
  /\ Returned /\ ret.status = "ok"
  /\ call.tiles_x = 2 /\ call.tiles_y = 1 /\ call.tile_size = 2
  /\ call.tile_colors = <<Opaque1, Opaque2, Opaque1>>
  /\ WritesOf(ret, 0) = BlockOffsets(0)
  /\ WritesOf(ret, 1) = BlockOffsets(1)
  /\ WritesOf(ret, 2) = {}

----------------------------------------------------------------------------
(* assemble_png_idat                                                       *)

\* lib.rs 161
FILTER_NONE == 0
\* lib.rs 181
COMPRESSION_LEVEL == 6

Zeros(n) == [i \in 1..n |-> 0]

\* Mutant: the row is taken whole when it merely starts inside the buffer.
RowInBounds_start(start, end, len) == start <= len

\* lib.rs 164
RowInBounds(start, end, len) == end <= len

\* lib.rs 168-172
Available(start, len) == IF start < len THEN len - start ELSE 0

\* Mutant: a short row is not padded.
Resize_noPad(raw, new_len) ==
  IF new_len >= Len(raw) THEN raw ELSE SubSeq(raw, 1, new_len)

\* Vec::resize(new_len, 0): pads with zeros or truncates.
Resize(raw, new_len) ==
  IF new_len >= Len(raw) THEN raw \o Zeros(new_len - Len(raw))
  ELSE SubSeq(raw, 1, new_len)

\* &image_data[from..to] appended to raw; a range outside the buffer panics.
ExtendFromSlice(st, image_data, from, to) ==
  IF from > to \/ to > Len(image_data) THEN [st EXCEPT !.status = "panic"]
  ELSE [st EXCEPT !.raw = st.raw \o SubSeq(image_data, from + 1, to)]

\* lib.rs 161-177, the loop body for row y.  rows logs, per row, the slice
\* of image_data that was read and the number of bytes copied from it.
FrameRow(st, image_data, y, row_bytes) ==
  LET pushed == [st EXCEPT !.raw = st.raw \o <<FILTER_NONE>>]
      start == y * row_bytes
      end == start + row_bytes
  IN  IF RowInBounds(start, end, Len(image_data))
      THEN [ExtendFromSlice(pushed, image_data, start, end) EXCEPT
              !.rows = st.rows \o <<[from |-> start, to |-> end, copied |-> row_bytes]>>]
      ELSE LET available == Available(start, Len(image_data))
               copied == IF available > 0
                         THEN ExtendFromSlice(pushed, image_data, start, start + available)
                         ELSE pushed
           IN  [copied EXCEPT
                  !.raw = Resize(copied.raw, Len(copied.raw) + row_bytes - available),
                  !.rows = st.rows \o
                    <<[from |-> start,
                       to |-> IF available > 0 THEN start + available ELSE start,
                       copied |-> available]>>]

RECURSIVE FrameRows(_, _, _, _, _)
FrameRows(st, image_data, y, h, row_bytes) ==
  IF y >= h \/ st.status # "ok" THEN st
  ELSE FrameRows(FrameRow(st, image_data, y, row_bytes), image_data, y + 1, h, row_bytes)

\* Adler-32 as its two 16-bit halves <<a, b>>.
RECURSIVE Adler32(_, _, _, _)
Adler32(data, i, a, b) ==
  IF i > Len(data) THEN <<a, b>>
  ELSE LET a2 == (a + data[i]) % 65521
       IN  Adler32(data, i + 1, a2, (b + a2) % 65521)

AdlerBytes(data) ==
  LET s == Adler32(data, 1, 1, 0)
  IN  <<s[2] \div 256, s[2] % 256, s[1] \div 256, s[1] % 256>>

\* miniz_oxide::deflate::compress_to_vec_zlib: a zlib stream, here the
\* 2-byte header, one final stored deflate block (LEN, ~LEN, the bytes)
\* and the big-endian Adler-32 of the uncompressed bytes.
compress_to_vec_zlib(raw, level) ==
  LET flevel == IF level >= 7 THEN 3 ELSE IF level = 6 THEN 2
                ELSE IF level >= 2 THEN 1 ELSE 0
      flg == flevel * 64 + ((31 - ((120 * 256 + flevel * 64) % 31)) % 31)
      n == Len(raw)
  IN  <<120, flg, 1, n % 256, n \div 256, 255 - (n % 256), 255 - (n \div 256)>>
      \o raw \o AdlerBytes(raw)

\* miniz_oxide::inflate::decompress_to_vec_zlib on such a stream.
decompress_to_vec_zlib(z) ==
  IF Len(z) < 11 \/ z[1] # 120 \/ (z[1] * 256 + z[2]) % 31 # 0 \/ z[3] # 1
  THEN [status |-> "err", data |-> <<>>]
  ELSE LET n == z[4] + 256 * z[5]
       IN  IF z[6] # 255 - z[4] \/ z[7] # 255 - z[5] \/ Len(z) # n + 11
           THEN [status |-> "err", data |-> <<>>]
           ELSE LET data == SubSeq(z, 8, 7 + n)
                IN  IF SubSeq(z, 8 + n, 11 + n) # AdlerBytes(data)
                    THEN [status |-> "err", data |-> <<>>]
                    ELSE [status |-> "ok", data |-> data]

\* lib.rs 154-182.  raw is the byte sequence handed to the compressor, out
\* the returned compressed stream.
assemble_png_idat(image_data, width, height) ==
  LET row_bytes == width * 3
      st == FrameRows([status |-> "ok", raw |-> <<>>, rows |-> <<>>, out |-> <<>>],
                      image_data, 0, height, row_bytes)
  IN  IF st.status # "ok" THEN st
      ELSE [st EXCEPT !.out = compress_to_vec_zlib(st.raw, COMPRESSION_LEVEL)]

ByteValues == {0, 255}

InitIdat ==
  /\ \E data \in SeqsUpTo(ByteValues, MaxImageLen), width \in 0..MaxWidth,
        height \in 0..MaxHeight :
       call = [op |-> "idat", image_data |-> data, width |-> width, height |-> height]
  /\ ret = NoRet
  /\ canvas = <<>>
  /\ pending = {}

AssembleIdat ==
  /\ call.op = "idat"
  /\ ret = NoRet
  /\ ret' = assemble_png_idat(call.image_data, call.width, call.height)
  /\ UNCHANGED <<call, canvas, pending>>

NextIdat == AssembleIdat

SpecIdat == InitIdat /\ [][NextIdat]_vars

IdatReturned == call.op = "idat" /\ ret.status \in {"ok", "panic"}

\* Row y as the contract describes it: the filter byte 0, then
\* pixels[y*width*3 + i] where that index is inside the buffer, else 0.
ExpectedRow(y) ==
  <<0>> \o [i \in 1..(call.width * 3) |->
             IF y * call.width * 3 + i <= Len(call.image_data)
             THEN call.image_data[y * call.width * 3 + i] ELSE 0]

RECURSIVE ExpectedRows(_)
ExpectedRows(y) == IF y >= call.height THEN <<>> ELSE ExpectedRow(y) \o ExpectedRows(y + 1)

\* C3: the bytes handed to the compressor, which decompressing the result
\* reproduces, are height rows of 1 + width*3 bytes: filter byte 0, then
\* the row's pixel bytes, zero where the buffer has none.
C3_ScanlinesMatchPixels ==
  IdatReturned =>
    /\ ret.status = "ok"
    /\ ret.raw = ExpectedRows(0)
    /\ Len(ret.raw) = call.height * (1 + call.width * 3)
    /\ decompress_to_vec_zlib(ret.out) = [status |-> "ok", data |-> ExpectedRows(0)]

C3_Witness ==
  /\ IdatReturned /\ ret.status = "ok"
  /\ call.width = 2 /\ call.height = 2
  /\ call.image_data = <<255, 0, 0, 0, 255, 0, 255>>
  /\ ret.raw = <<0, 255, 0, 0, 0, 255, 0, 0, 255, 0, 0, 0, 0, 0>>

\* C7: no index at or beyond image_data.length is read; row y copies
\* min(width*3, max(0, length - y*width*3)) bytes and zero-fills the rest, so
\* every row is width*3 bytes after its filter byte.
C7_RowReadsStayInBuffer ==
  IdatReturned =>
    LET row_bytes == call.width * 3
        len == Len(call.image_data)
    IN  /\ Len(ret.rows) = call.height
        /\ Len(ret.raw) = call.height * (1 + row_bytes)
        /\ \A y \in 0..(call.height - 1) :
             LET r == ret.rows[y + 1]
                 first == y * (1 + row_bytes) + 1
             IN  /\ r.from = y * row_bytes
                 /\ r.copied = Min(row_bytes, Max(0, len - y * row_bytes))
                 /\ r.to = r.from + r.copied
                 /\ r.copied > 0 => r.to <= len
                 /\ \A i \in (r.copied + 1)..row_bytes : ret.raw[first + i] = 0

C7_Witness ==
  /\ IdatReturned /\ ret.status = "ok"
  /\ call.width = 2 /\ call.height = 2
  /\ call.image_data = <<255, 255, 255, 255>>
  /\ ret.rows[1].copied = 4
  /\ ret.rows[2].copied = 0
  /\ Len(ret.raw) = 14

----------------------------------------------------------------------------
(* compute_spawn_entry_names                                               *)

Abs(v) == IF v < 0 THEN -v ELSE v

\* Mutant: a negative radius is not clamped.
ClampRadius_raw(radius) == radius

\* lib.rs 25
ClampRadius(radius) == Max(radius, 0)

\* lib.rs 26
OutOfRadius(dx, dy, radius) == Max(Abs(dx), Abs(dy)) > radius

\* lib.rs 30-34
RECURSIVE PushMatching(_, _, _, _, _)
PushMatching(names, entries, i, dx, dy) ==
  IF i > Len(entries) THEN names
  ELSE PushMatching(IF entries[i][2] = dx /\ entries[i][3] = dy
                    THEN Append(names, entries[i][1]) ELSE names,
                    entries, i + 1, dx, dy)

\* lib.rs 35
StopsAfter(names) == Len(names) > 0

\* lib.rs 19-38
RECURSIVE ScanAreas(_, _, _, _, _, _)
ScanAreas(names, payload, a, x, y, z) ==
  IF a > Len(payload) THEN names
  ELSE LET area == payload[a]
           dx == x - area.x
           dy == y - area.y
       IN  IF area.z # z THEN ScanAreas(names, payload, a + 1, x, y, z)
           ELSE IF OutOfRadius(dx, dy, ClampRadius(area.radius))
           THEN ScanAreas(names, payload, a + 1, x, y, z)
           ELSE LET pushed == PushMatching(names, area.entries, 1, dx, dy)
                IN  IF StopsAfter(pushed) THEN pushed
                    ELSE ScanAreas(pushed, payload, a + 1, x, y, z)

\* lib.rs 16-41
compute_spawn_entry_names(payload, x, y, z) == ScanAreas(<<>>, payload, 1, x, y, z)

SpawnEntries == {<<"Dragon", 0, 0>>, <<"Rat", 0, 0>>, <<"Demon", 0, 1>>}
\* Floor and radius of an area: on the cursor's floor with a positive and
\* with a negative radius, and on another floor.
SpawnPlacements == {<<7, 1>>, <<7, -1>>, <<6, 1>>}
SpawnAreas ==
  {[x |-> 100, y |-> 200, z |-> p[1], radius |-> p[2], entries |-> e] :
     p \in SpawnPlacements, e \in SeqsUpTo(SpawnEntries, MaxEntries)}
Cursors == {<<100, 200, 7>>, <<100, 201, 7>>, <<102, 200, 7>>}

InitSpawn ==
  /\ \E n \in 0..MaxAreas : \E payload \in [1..n -> SpawnAreas], c \in Cursors :
       call = [op |-> "spawn", payload |-> payload, x |-> c[1], y |-> c[2], z |-> c[3]]
  /\ ret = NoRet
  /\ canvas = <<>>
  /\ pending = {}

\* lib.rs 43-46
SpawnEntryNamesAtCursor ==
  /\ call.op = "spawn"
  /\ ret = NoRet
  /\ ret' = [status |-> "ok",
             names |-> compute_spawn_entry_names(call.payload, call.x, call.y, call.z)]
  /\ UNCHANGED <<call, canvas, pending>>

NextSpawn == SpawnEntryNamesAtCursor

SpecSpawn == InitSpawn /\ [][NextSpawn]_vars

SpawnReturned == call.op = "spawn" /\ ret.status = "ok"

EntryAtCursor(area, e) == e[2] = call.x - area.x /\ e[3] = call.y - area.y

\* The area is on the cursor's floor, within its radius of the cursor, and
\* has an entry at the cursor.
Qualifies(area) ==
  /\ area.z = call.z
  /\ Max(Abs(call.x - area.x), Abs(call.y - area.y)) <= Max(area.radius, 0)
  /\ \E i \in 1..Len(area.entries) : EntryAtCursor(area, area.entries[i])

RECURSIVE NamesAtCursor(_, _)
NamesAtCursor(area, i) ==
  IF i > Len(area.entries) THEN <<>>
  ELSE (IF EntryAtCursor(area, area.entries[i]) THEN <<area.entries[i][1]>> ELSE <<>>)
       \o NamesAtCursor(area, i + 1)

\* C9: the result is, in entry order, the names of the entries at the
\* cursor in the first area of the payload that qualifies, and the empty
\* list when no area qualifies.
C9_NamesOfFirstQualifyingArea ==
  SpawnReturned =>
    LET q == {a \in 1..Len(call.payload) : Qualifies(call.payload[a])}
    IN  IF q = {} THEN ret.names = <<>>
        ELSE LET first == CHOOSE a \in q : \A b \in q : a <= b
             IN  ret.names = NamesAtCursor(call.payload[first], 1)

C9_Witness ==
  /\ SpawnReturned
  /\ call.x = 100 /\ call.y = 200
  /\ Len(call.payload) = 2
  /\ call.payload[1].z = 7 /\ call.payload[1].radius = 1
  /\ call.payload[1].entries = <<<<"Demon", 0, 1>>>>
  /\ call.payload[2].z = 7 /\ call.payload[2].radius = -1
  /\ call.payload[2].entries = <<<<"Rat", 0, 0>>, <<"Dragon", 0, 0>>>>
  /\ ret.names = <<"Rat", "Dragon">>

====
